---- MODULE Spec2Model ----
(***************************************************************************)
(* Model of automation.py: a batch job that merges the *.xlsx files of the *)
(* data directory into one table, writes it, summarises the Sales and      *)
(* Expenses columns, saves a bar chart and writes the summary.             *)
(*                                                                         *)
(* A table (pandas DataFrame) is a record                                  *)
(*    [columns : set of column names,                                      *)
(*     rows    : sequence of functions columns -> cell,                    *)
(*     index   : sequence of row labels, one per row].                     *)
(* A cell is a number, a file name (provenance) or Null (NaN).             *)
(***************************************************************************)
EXTENDS Integers, Sequences, FiniteSets

VARIABLES
    pc,          \* position of the script: the statement about to run
    now,         \* wall clock, in ticks of 1/TicksPerSecond second
    dirs,        \* which of data, output, logs exist under ROOT
    dataFiles,   \* content of the data directory, in glob order
    files,       \* local `files` of __main__ (list of paths)
    merged_df,   \* local `merged_df` of __main__
    summary_df,  \* local `summary_df` of __main__
    outputs,     \* files written under OUTPUT_DIR
    logFiles,    \* files written under LOG_DIR (the run's log file)
    log,         \* records emitted through `logger`
    steps,       \* pipeline steps completed or entered, in order
    error        \* the uncaught exception that ended the run, or "none"

vars == <<pc, now, dirs, dataFiles, files, merged_df, summary_df, outputs,
          logFiles, log, steps, error>>

-----------------------------------------------------------------------------
(* Bounds of the model *)

MaxFiles == 2
MaxRows == 2
MaxClock == 2
TicksPerSecond == 2
MaxCalls == 2

-----------------------------------------------------------------------------
(* Paths and values *)

DATA_DIR == "data"
OUTPUT_DIR == "output"
LOG_DIR == "logs"
AllDirs == {DATA_DIR, OUTPUT_DIR, LOG_DIR}

\* cells: a number, NaN, or a text value
Num(n) == [t |-> "num", v |-> n]
Str(s) == [t |-> "str", v |-> s]
Null == [t |-> "nan", v |-> 0]
SourceColumn == "__source_file"
DataColumns == {"Sales", "Expenses"}
SummaryColumns == {"Total Sales", "Total Expenses", "Total Profit"}
\* sample amounts of a data column: a sale of 2, an expense of 1
Amounts(col) == IF col = "Sales" THEN {2} ELSE {1}
\* what a cell of a data column of an input sheet may hold
Cell(col) == {Null} \cup { Num(n) : n \in Amounts(col) }

FileName(i, ext) == [stem |-> i, ext |-> ext]
PathOf(dir, name) == [parent |-> dir, name |-> name]
\* Path.name: the final component of the path
BaseName(p) == p.name

\* datetime.now().strftime('%Y%m%d_%H%M%S'): the clock truncated to the second
strftime(t) == t \div TicksPerSecond

-----------------------------------------------------------------------------
(* The data directory: entries in listing order; an entry is a file that   *)
(* is not a spreadsheet, a spreadsheet that cannot be read, or a readable  *)
(* spreadsheet with its header and data rows.                              *)

OtherEntry(i) ==
    [name |-> FileName(i, "txt"), ok |-> FALSE, columns |-> {}, rows |-> <<>>]
CorruptEntry(i) ==
    [name |-> FileName(i, "xlsx"), ok |-> FALSE, columns |-> {}, rows |-> <<>>]
\* the rows a sheet with the columns C may hold
SheetRows(C) ==
    { r \in [C -> UNION { Cell(c) : c \in DataColumns }] : \A c \in C : r[c] \in Cell(c) }

\* readable spreadsheets with exactly k data rows
SheetEntries(i, k) ==
    UNION { { [name |-> FileName(i, "xlsx"), ok |-> TRUE, columns |-> C, rows |-> rs]
              : rs \in [1..k -> SheetRows(C)] }
            : C \in SUBSET DataColumns }
EntriesAt(i, k) ==
    (IF k = 0 THEN {OtherEntry(i), CorruptEntry(i)} ELSE {}) \cup SheetEntries(i, k)

\* listings of at most n entries, named from i on, with at most r data rows in all
RECURSIVE DirectoriesFrom(_, _, _)
DirectoriesFrom(i, n, r) ==
    {<<>>} \cup
    (IF n = 0 THEN {}
     ELSE UNION { LET rest == DirectoriesFrom(i + 1, n - 1, r - k)
                  IN  { <<e>> \o d : e \in EntriesAt(i, k), d \in rest }
                  : k \in 0..r })
Directories == DirectoriesFrom(1, MaxFiles, MaxRows)

-----------------------------------------------------------------------------
(* Logging *)

LogRecord(level, msg, args) == [level |-> level, msg |-> msg, args |-> args]

-----------------------------------------------------------------------------
(* pandas *)

RangeIndex(n) == [k \in 1..n |-> k - 1]
\* pd.DataFrame()
EmptyDataFrame == [columns |-> {}, rows |-> <<>>, index |-> <<>>]
Shape(df) == <<Len(df.rows), Cardinality(df.columns)>>
\* DataFrame.empty: any axis of length 0
DataFrameEmpty_orSingle(df) == Len(df.rows) <= 1 \/ df.columns = {}
DataFrameEmpty_never(df) == FALSE
DataFrameEmpty(df) == Len(df.rows) = 0 \/ df.columns = {}

\* pd.read_excel(fp): raises on an unreadable file, else the sheet as a table
\* with a fresh RangeIndex
read_excel(fp, disk) ==
    LET hit == { k \in 1..Len(disk) : disk[k].name = BaseName(fp) }
        e == disk[CHOOSE k \in hit : TRUE]
    IN  IF hit = {} \/ ~e.ok
        THEN [raised |-> TRUE, df |-> EmptyDataFrame]
        ELSE [raised |-> FALSE,
              df |-> [columns |-> e.columns, rows |-> e.rows,
                      index |-> RangeIndex(Len(e.rows))]]

\* df[col] = value: the column is added (or overwritten) with value in every row
SetColumn_null(df, col, value) ==
    [df EXCEPT !.columns = df.columns \cup {col},
               !.rows = [k \in 1..Len(df.rows) |->
                           [c \in df.columns \cup {col} |->
                               IF c = col THEN Null ELSE df.rows[k][c]]]]
SetColumn(df, col, value) ==
    [df EXCEPT !.columns = df.columns \cup {col},
               !.rows = [k \in 1..Len(df.rows) |->
                           [c \in df.columns \cup {col} |->
                               IF c = col THEN value ELSE df.rows[k][c]]]]

RECURSIVE UnionColumns(_)
UnionColumns(frames) ==
    IF frames = <<>> THEN {}
    ELSE frames[1].columns \cup UnionColumns(Tail(frames))

\* the rows of df over the column set cols, absent columns filled with NaN
Reindexed(df, cols) ==
    [k \in 1..Len(df.rows) |->
        [c \in cols |-> IF c \in df.columns THEN df.rows[k][c] ELSE Null]]

RECURSIVE ConcatRows(_, _)
ConcatRows(frames, cols) ==
    IF frames = <<>> THEN <<>>
    ELSE Reindexed(frames[1], cols) \o ConcatRows(Tail(frames), cols)

RECURSIVE ConcatIndex(_)
ConcatIndex(frames) ==
    IF frames = <<>> THEN <<>>
    ELSE frames[1].index \o ConcatIndex(Tail(frames))

\* pd.concat(frames, ignore_index=...)
concat_keepIndex(frames, ignore_index) ==
    LET cols == UnionColumns(frames)
        rows == ConcatRows(frames, cols)
    IN  [columns |-> cols, rows |-> rows, index |-> ConcatIndex(frames)]
concat(frames, ignore_index) ==
    LET cols == UnionColumns(frames)
        rows == ConcatRows(frames, cols)
    IN  [columns |-> cols, rows |-> rows,
         index |-> IF ignore_index THEN RangeIndex(Len(rows))
                   ELSE ConcatIndex(frames)]

\* Series.sum(): NaN cells are skipped, the sum of nothing is 0
RECURSIVE SeriesSum(_, _)
SeriesSum(rows, col) ==
    IF rows = <<>> THEN 0
    ELSE (IF rows[1][col] = Null THEN 0 ELSE rows[1][col].v)
         + SeriesSum(Tail(rows), col)

-----------------------------------------------------------------------------
(* Helpers of automation.py *)

\* Path.mkdir(parents=True, exist_ok=...): ROOT, the only parent, exists
mkdir_strict(fs, p, exist_ok) ==
    IF p \in fs
    THEN [dirs |-> fs, raised |-> TRUE]
    ELSE [dirs |-> fs \cup {p}, raised |-> FALSE]
mkdir(fs, p, exist_ok) ==
    IF p \in fs
    THEN [dirs |-> fs, raised |-> ~exist_ok]
    ELSE [dirs |-> fs \cup {p}, raised |-> FALSE]

RECURSIVE MkdirAll(_, _)
MkdirAll(fs, ps) ==
    IF ps = <<>> THEN [dirs |-> fs, raised |-> FALSE]
    ELSE LET r == mkdir(fs, ps[1], TRUE)
         IN  IF r.raised THEN r ELSE MkdirAll(r.dirs, Tail(ps))

\* ensure_folders(): the directories afterwards, whether it raised, its log
ensure_folders(fs) ==
    LET r == MkdirAll(fs, <<DATA_DIR, OUTPUT_DIR, LOG_DIR>>)
    IN  [dirs |-> r.dirs, raised |-> r.raised,
         log |-> IF r.raised THEN <<>>
                 ELSE <<LogRecord("INFO", "Folders checked/created", <<>>)>>]

\* glob.glob(DATA_DIR / "*.xlsx")
RECURSIVE Glob(_)
Glob(disk) ==
    IF disk = <<>> THEN <<>>
    ELSE (IF disk[1].name.ext = "xlsx"
          THEN <<PathOf(DATA_DIR, disk[1].name)>> ELSE <<>>)
         \o Glob(Tail(disk))

list_excel_files(fs, disk) ==
    LET fl == IF DATA_DIR \in fs THEN Glob(disk) ELSE <<>>
    IN  [files |-> fl,
         log |-> <<LogRecord("INFO", "Found Excel files", <<Len(fl)>>)>>]

\* the for loop of merge_excels, from the list fl on
RECURSIVE LoadFrames_break(_, _, _, _)
LoadFrames_break(fl, disk, frames, lg) ==
    IF fl = <<>> THEN [frames |-> frames, log |-> lg]
    ELSE LET fp == fl[1]
             r == read_excel(fp, disk)
             df == SetColumn(r.df, SourceColumn, Str(BaseName(fp)))
         IN  IF r.raised
             THEN [frames |-> frames,
                   log |-> Append(lg, LogRecord("ERROR", "Failed to read", <<fp>>))]
             ELSE LoadFrames_break(Tail(fl), disk, Append(frames, df),
                      Append(lg, LogRecord("INFO", "Loaded", <<BaseName(fp), Shape(df)>>)))
RECURSIVE LoadFrames(_, _, _, _)
LoadFrames(fl, disk, frames, lg) ==
    IF fl = <<>> THEN [frames |-> frames, log |-> lg]
    ELSE LET fp == fl[1]
             r == read_excel(fp, disk)
             df == SetColumn(r.df, SourceColumn, Str(BaseName(fp)))
         IN  IF r.raised
             THEN LoadFrames(Tail(fl), disk, frames,
                      Append(lg, LogRecord("ERROR", "Failed to read", <<fp>>)))
             ELSE LoadFrames(Tail(fl), disk, Append(frames, df),
                      Append(lg, LogRecord("INFO", "Loaded", <<BaseName(fp), Shape(df)>>)))

merge_excels(fl, disk) ==
    IF fl = <<>>
    THEN [df |-> EmptyDataFrame,
          log |-> <<LogRecord("WARNING", "No Excel files found to merge.", <<>>)>>]
    ELSE LET r == LoadFrames(fl, disk, <<>>, <<>>)
             merged == concat(r.frames, TRUE)
         IN  IF r.frames = <<>>
             THEN [df |-> EmptyDataFrame, log |-> r.log]
             ELSE [df |-> merged,
                   log |-> Append(r.log, LogRecord("INFO", "Merged shape", <<Shape(merged)>>))]

OutputFile(kind, stamp, ext) == [kind |-> kind, stamp |-> stamp, ext |-> ext]

\* generate_summary(df) called when the clock reads t
generate_summary_lenient(df, t) ==
    LET sales == IF "Sales" \in df.columns THEN SeriesSum(df.rows, "Sales") ELSE 0
        expenses == IF "Expenses" \in df.columns THEN SeriesSum(df.rows, "Expenses") ELSE 0
        row == [c \in SummaryColumns |->
                   CASE c = "Total Sales" -> Num(sales)
                     [] c = "Total Expenses" -> Num(expenses)
                     [] c = "Total Profit" -> Num(sales - expenses)]
        chart == OutputFile("summary_bar_chart", strftime(t), "png")
    IN  [raised |-> FALSE,
         df |-> [columns |-> SummaryColumns, rows |-> <<row>>, index |-> RangeIndex(1)],
         written |-> {chart},
         log |-> <<LogRecord("INFO", "Saved summary bar chart", <<chart>>)>>]
generate_summary_addProfit(df, t) ==
    LET row == [c \in SummaryColumns |->
                   CASE c = "Total Sales" -> Num(SeriesSum(df.rows, "Sales"))
                     [] c = "Total Expenses" -> Num(SeriesSum(df.rows, "Expenses"))
                     [] c = "Total Profit" ->
                            Num(SeriesSum(df.rows, "Sales") + SeriesSum(df.rows, "Expenses"))]
        chart == OutputFile("summary_bar_chart", strftime(t), "png")
    IN  IF ~(DataColumns \subseteq df.columns)
        THEN [raised |-> TRUE, df |-> EmptyDataFrame, written |-> {}, log |-> <<>>]
        ELSE [raised |-> FALSE,
              df |-> [columns |-> SummaryColumns, rows |-> <<row>>, index |-> RangeIndex(1)],
              written |-> {chart},
              log |-> <<LogRecord("INFO", "Saved summary bar chart", <<chart>>)>>]
generate_summary(df, t) ==
    LET row == [c \in SummaryColumns |->
                   CASE c = "Total Sales" -> Num(SeriesSum(df.rows, "Sales"))
                     [] c = "Total Expenses" -> Num(SeriesSum(df.rows, "Expenses"))
                     [] c = "Total Profit" ->
                            Num(SeriesSum(df.rows, "Sales") - SeriesSum(df.rows, "Expenses"))]
        chart == OutputFile("summary_bar_chart", strftime(t), "png")
    IN  IF ~(DataColumns \subseteq df.columns)
        THEN \* df["Sales"] or df["Expenses"] raises KeyError before any chart exists
             [raised |-> TRUE, df |-> EmptyDataFrame, written |-> {}, log |-> <<>>]
        ELSE [raised |-> FALSE,
              df |-> [columns |-> SummaryColumns, rows |-> <<row>>, index |-> RangeIndex(1)],
              written |-> {chart},
              log |-> <<LogRecord("INFO", "Saved summary bar chart", <<chart>>)>>]

-----------------------------------------------------------------------------
(* The script *)

Init ==
    /\ pc = "import"
    /\ now = 0
    /\ dataFiles \in Directories
    \* a data directory that does not exist holds no file
    /\ dirs \in { S \in SUBSET AllDirs : DATA_DIR \in S \/ dataFiles = <<>> }
    /\ files = <<>>
    /\ merged_df = EmptyDataFrame
    /\ summary_df = EmptyDataFrame
    /\ outputs = {}
    /\ logFiles = {}
    /\ log = <<>>
    /\ steps = <<>>
    /\ error = "none"

\* time passes while the script runs. The clock is read when the log file is
\* named (the origin of `now`) and then at lines 118, 102 and 123 only, so the
\* time that passes before line 118 is taken when the script stands there.
Tick ==
    /\ pc \in {"write_merged", "generate_summary", "write_summary"}
    /\ now < MaxClock
    /\ now' = now + 1
    /\ UNCHANGED <<pc, dirs, dataFiles, files, merged_df, summary_df, outputs,
                   logFiles, log, steps, error>>

\* lines 27-37: the log directory and the run's log file
LoggingSetup ==
    /\ pc = "import"
    /\ dirs' = mkdir(dirs, LOG_DIR, TRUE).dirs
    /\ logFiles' = {OutputFile("run", strftime(now), "log")}
    /\ pc' = "ensure_folders"
    /\ UNCHANGED <<now, dataFiles, files, merged_df, summary_df, outputs, log,
                   steps, error>>

\* line 113
EnsureFolders ==
    /\ pc = "ensure_folders"
    /\ LET r == ensure_folders(dirs)
       IN  /\ dirs' = r.dirs
           /\ log' = log \o r.log
           /\ pc' = IF r.raised THEN "aborted" ELSE "list_excel_files"
           /\ error' = IF r.raised THEN "FileExistsError" ELSE error
    /\ steps' = Append(steps, "ensure_folders")
    /\ UNCHANGED <<now, dataFiles, files, merged_df, summary_df, outputs, logFiles>>

\* line 114
ListExcelFiles ==
    /\ pc = "list_excel_files"
    /\ LET r == list_excel_files(dirs, dataFiles)
       IN  /\ files' = r.files
           /\ log' = log \o r.log
    /\ steps' = Append(steps, "list_excel_files")
    /\ pc' = "merge_excels"
    /\ UNCHANGED <<now, dirs, dataFiles, merged_df, summary_df, outputs, logFiles,
                   error>>

\* line 115
MergeExcels ==
    /\ pc = "merge_excels"
    /\ LET r == merge_excels(files, dataFiles)
       IN  /\ merged_df' = r.df
           /\ log' = log \o r.log
           \* line 117
           /\ pc' = IF ~DataFrameEmpty(r.df) THEN "write_merged" ELSE "no_data"
    /\ steps' = Append(steps, "merge_excels")
    /\ UNCHANGED <<now, dirs, dataFiles, files, summary_df, outputs, logFiles, error>>

\* lines 118-120
WriteMerged_startStamp ==
    /\ pc = "write_merged"
    /\ \E g \in logFiles :
         LET f == OutputFile("merged", g.stamp, "xlsx")
         IN  /\ outputs' = outputs \cup {f}
             /\ log' = Append(log, LogRecord("INFO", "Saved merged Excel file", <<f>>))
    /\ steps' = Append(steps, "write_merged")
    /\ pc' = "generate_summary"
    /\ UNCHANGED <<now, dirs, dataFiles, files, merged_df, summary_df, logFiles, error>>
WriteMerged ==
    /\ pc = "write_merged"
    /\ LET f == OutputFile("merged", strftime(now), "xlsx")
       IN  /\ outputs' = outputs \cup {f}
           /\ log' = Append(log, LogRecord("INFO", "Saved merged Excel file", <<f>>))
    /\ steps' = Append(steps, "write_merged")
    /\ pc' = "generate_summary"
    /\ UNCHANGED <<now, dirs, dataFiles, files, merged_df, summary_df, logFiles, error>>

\* line 122
GenerateSummary ==
    /\ pc = "generate_summary"
    /\ LET r == generate_summary(merged_df, now)
       IN  /\ summary_df' = r.df
           /\ outputs' = outputs \cup r.written
           /\ log' = log \o r.log
           /\ pc' = IF r.raised THEN "aborted" ELSE "write_summary"
           /\ error' = IF r.raised THEN "KeyError" ELSE error
    /\ steps' = Append(steps, "generate_summary")
    /\ UNCHANGED <<now, dirs, dataFiles, files, merged_df, logFiles>>

\* lines 123-125
WriteSummary_retry ==
    /\ pc = "write_summary"
    /\ LET f == OutputFile("summary", strftime(now), "xlsx")
       IN  /\ outputs' = outputs \cup {f}
           /\ log' = Append(log, LogRecord("INFO", "Saved summary Excel file", <<f>>))
    /\ steps' = Append(steps, "write_summary")
    /\ pc' = IF Len(steps) < 6 THEN "write_summary" ELSE "done"
    /\ UNCHANGED <<now, dirs, dataFiles, files, merged_df, summary_df, logFiles, error>>
WriteSummary ==
    /\ pc = "write_summary"
    /\ LET f == OutputFile("summary", strftime(now), "xlsx")
       IN  /\ outputs' = outputs \cup {f}
           /\ log' = Append(log, LogRecord("INFO", "Saved summary Excel file", <<f>>))
    /\ steps' = Append(steps, "write_summary")
    /\ pc' = "done"
    /\ UNCHANGED <<now, dirs, dataFiles, files, merged_df, summary_df, logFiles, error>>

\* line 127
NoData ==
    /\ pc = "no_data"
    /\ log' = Append(log, LogRecord("INFO", "No data merged.", <<>>))
    /\ pc' = "done"
    /\ UNCHANGED <<now, dirs, dataFiles, files, merged_df, summary_df, outputs,
                   logFiles, steps, error>>

\* the statements of the script
Step ==
    \/ LoggingSetup
    \/ EnsureFolders
    \/ ListExcelFiles
    \/ MergeExcels
    \/ WriteMerged
    \/ GenerateSummary
    \/ WriteSummary
    \/ NoData

Next == Tick \/ Step

Spec == Init /\ [][Next]_vars

-----------------------------------------------------------------------------
(* ensure_folders called repeatedly, from any set of existing directories *)

CallEnsureFolders ==
    /\ Len(steps) < MaxCalls
    /\ error = "none"
    /\ LET r == ensure_folders(dirs)
       IN  /\ dirs' = r.dirs
           /\ log' = log \o r.log
           /\ error' = IF r.raised THEN "FileExistsError" ELSE error
    /\ steps' = Append(steps, "ensure_folders")
    /\ UNCHANGED <<pc, now, dataFiles, files, merged_df, summary_df, outputs, logFiles>>

NextFolders == CallEnsureFolders

SpecFolders == Init /\ [][NextFolders]_vars

-----------------------------------------------------------------------------
(* Vocabulary of the properties *)

HasStep(name) == \E i \in 1..Len(steps) : steps[i] = name
Written(kind) == { f \in outputs : f.kind = kind }
Logged(level, msg, args) ==
    \E i \in 1..Len(log) : log[i] = LogRecord(level, msg, args)

\* positions of the data directory holding a spreadsheet, one that loads, one
\* that does not
Xlsx == { j \in 1..Len(dataFiles) : dataFiles[j].name.ext = "xlsx" }
Loadable == { j \in Xlsx : dataFiles[j].ok }
Unreadable == Xlsx \ Loadable

\* number of data rows of the loadable spreadsheets at positions 1..j
RECURSIVE RowsUpTo(_)
RowsUpTo(j) ==
    IF j = 0 THEN 0
    ELSE RowsUpTo(j - 1) + (IF j \in Loadable THEN Len(dataFiles[j].rows) ELSE 0)

\* rows of the merged table tagged with the name of the file at position j
RowsFrom(j) ==
    { k \in 1..Len(merged_df.rows) :
        merged_df.rows[k][SourceColumn] = Str(dataFiles[j].name) }

\* the sum of a column of the merged table, amount by amount
RECURSIVE SumOfAmounts(_, _)
SumOfAmounts(S, col) ==
    IF S = {} THEN 0
    ELSE LET a == CHOOSE x \in S : TRUE
         IN  a * Cardinality({ k \in 1..Len(merged_df.rows) :
                                 merged_df.rows[k][col] = Num(a) })
             + SumOfAmounts(S \ {a}, col)
ColumnTotal(col) ==
    SumOfAmounts({ merged_df.rows[k][col].v :
                     k \in { i \in 1..Len(merged_df.rows) :
                               merged_df.rows[i][col] # Null } }, col)

PipelineOrder ==
    <<"ensure_folders", "list_excel_files", "merge_excels", "write_merged",
      "generate_summary", "write_summary">>

-----------------------------------------------------------------------------
(* Properties *)

\* C1: when every listed file loads, the table returned by merge_excels has as
\* many rows as the input tables together, and every row's __source_file is
\* non-null and is the base name of the file the row was loaded from.
C1_MergeRowCountAndProvenance ==
    (HasStep("merge_excels") /\ Unreadable = {}) =>
        /\ Len(merged_df.rows) = RowsUpTo(Len(dataFiles))
        /\ \A k \in 1..Len(merged_df.rows) : merged_df.rows[k][SourceColumn] # Null
        /\ \A j \in Loadable : \A i \in 1..Len(dataFiles[j].rows) :
               merged_df.rows[RowsUpTo(j - 1) + i][SourceColumn]
                   = Str(BaseName(PathOf(DATA_DIR, dataFiles[j].name)))

C1_Witness ==
    /\ HasStep("merge_excels")
    /\ Unreadable = {}
    /\ Cardinality(Loadable) = 2
    /\ \A j \in Loadable : Len(dataFiles[j].rows) = 1
    /\ Len(merged_df.rows) = 2

\* C2: a file whose load raises is logged as a failure with its path and
\* contributes no rows; every other file, before or after it, is still loaded
\* and merged; merge_excels returns normally.
C2_LoadFailureIsSkipped ==
    (HasStep("merge_excels") /\ Unreadable # {}) =>
        /\ \A j \in Unreadable :
              /\ Logged("ERROR", "Failed to read", <<PathOf(DATA_DIR, dataFiles[j].name)>>)
              /\ RowsFrom(j) = {}
        /\ \A j \in Loadable :
              /\ \E i \in 1..Len(log) :
                    /\ log[i].msg = "Loaded"
                    /\ log[i].args[1] = dataFiles[j].name
              /\ Cardinality(RowsFrom(j)) = Len(dataFiles[j].rows)
        /\ Len(merged_df.rows) = RowsUpTo(Len(dataFiles))
        /\ steps[Len(steps)] = "merge_excels" => (error = "none" /\ pc # "aborted")

C2_Witness ==
    /\ HasStep("merge_excels")
    /\ \E j \in Unreadable : \E l \in Loadable :
          j < l /\ Len(dataFiles[l].rows) = 2 /\ Len(merged_df.rows) = 2

\* C3 as stated: a run in which at least one discovered file loads writes
\* the merged spreadsheet, whatever the number of rows of the loaded files.
C3_OutputWheneverAFileLoads ==
    (pc \in {"done", "aborted"} /\ Loadable # {}) => Written("merged") # {}

\* C3 amended: a run in which at least one discovered file loads with at
\* least one data row writes the merged spreadsheet, however many other files
\* fail to load.
C3_OutputWhenARowLoads ==
    (pc \in {"done", "aborted"}
     /\ \E j \in Loadable : Len(dataFiles[j].rows) >= 1) => Written("merged") # {}

C3_Witness ==
    /\ pc = "done"
    /\ Unreadable # {}
    /\ \E j \in Loadable : Len(dataFiles[j].rows) = 1
    /\ Written("merged") # {}

\* C4: with no *.xlsx file in the input directory the run writes no merged
\* file, no summary file and no chart, never calls generate_summary, never
\* raises, can always take its next statement, and ends having logged the
\* "No data merged" message.
C4_NoInputNoOutput ==
    (Xlsx = {}) =>
        /\ outputs = {}
        /\ ~HasStep("generate_summary")
        /\ error = "none"
        /\ pc # "aborted"
        /\ pc # "done" => ENABLED Step
        /\ pc = "done" => log[Len(log)] = LogRecord("INFO", "No data merged.", <<>>)

C4_Witness ==
    /\ Xlsx = {}
    /\ pc = "done"
    /\ Logged("INFO", "No data merged.", <<>>)
    /\ Logged("WARNING", "No Excel files found to merge.", <<>>)

\* C5: for a merged table with Sales and Expenses columns generate_summary
\* returns one row with exactly the fields Total Sales, Total Expenses and
\* Total Profit: the sums of the two columns, null cells counting for
\* nothing, and their difference.
C5_SummaryTotals ==
    (HasStep("generate_summary") /\ DataColumns \subseteq merged_df.columns) =>
        /\ error = "none"
        /\ summary_df.columns = {"Total Sales", "Total Expenses", "Total Profit"}
        /\ Len(summary_df.rows) = 1
        /\ DOMAIN summary_df.rows[1] = summary_df.columns
        /\ summary_df.rows[1]["Total Sales"] = Num(ColumnTotal("Sales"))
        /\ summary_df.rows[1]["Total Expenses"] = Num(ColumnTotal("Expenses"))
        /\ summary_df.rows[1]["Total Profit"].v
             = summary_df.rows[1]["Total Sales"].v - summary_df.rows[1]["Total Expenses"].v

C5_Witness ==
    /\ HasStep("generate_summary")
    /\ error = "none"
    /\ \E j \in Loadable : "Sales" \notin dataFiles[j].columns /\ dataFiles[j].rows # <<>>
    /\ summary_df.rows[1]["Total Sales"].v = 2
    /\ summary_df.rows[1]["Total Expenses"].v = 1
    /\ summary_df.rows[1]["Total Profit"].v = 1

\* C6 as stated: in a run that writes outputs, the merged spreadsheet, the
\* summary spreadsheet and the chart all carry the timestamp of the second
\* at which execution started.
C6_AllStampsAreStartSecond ==
    (pc = "done" /\ outputs # {}) =>
        \A f \in outputs : \A g \in logFiles : f.stamp = g.stamp

\* C6 amended: each output's filename carries the second the clock shows
\* when that file's statement runs.
C6_StampIsSecondOfWriting ==
    [][ \A f \in outputs' \ outputs :
            /\ f.stamp * TicksPerSecond <= now
            /\ now < (f.stamp + 1) * TicksPerSecond ]_vars

C6_Witness ==
    /\ pc = "done"
    /\ \E f \in Written("merged") : \E g \in Written("summary") : f.stamp # g.stamp
    /\ \E f \in Written("merged") : \E g \in logFiles : f.stamp = g.stamp

\* C7: the steps of a run occur in the order ensure folders, discover files,
\* merge, write merged file, compute summary and save chart, write summary
\* file, each at most once; the chart is never saved before the merged file
\* is written, nor the summary file written before the chart is saved.
C7_StepsInOrderOnce ==
    /\ Len(steps) <= Len(PipelineOrder)
    /\ \A i \in 1..Len(steps) : steps[i] = PipelineOrder[i]
    /\ Written("summary_bar_chart") # {} => Written("merged") # {}
    /\ Written("summary") # {} => Written("summary_bar_chart") # {}
    /\ Cardinality(outputs) <= 3

C7_Witness ==
    /\ pc = "done"
    /\ steps = PipelineOrder
    /\ Cardinality(outputs) = 3

\* C8: from any set of existing directories a call of ensure_folders leaves
\* data, output and logs present without raising, and a call right after it
\* raises nothing and leaves the directories as they were.
C8_EnsureFoldersIdempotent ==
    [][ steps' # steps =>
            /\ error' = "none"
            /\ dirs' = {"data", "output", "logs"}
            /\ Len(steps) >= 1 => dirs' = dirs ]_vars

C8_Witness ==
    /\ Len(steps) = 2
    /\ steps[2] = "ensure_folders"
    /\ pc = "import"
    /\ dirs = {"data", "output", "logs"}
    /\ error = "none"

\* C9: when the merged table has rows but lacks Sales or Expenses, the run
\* aborts with an uncaught error inside generate_summary, the merged
\* spreadsheet being already on disk, and neither the chart nor the summary
\* spreadsheet is ever written.
C9_MissingColumnAborts ==
    (HasStep("merge_excels")
     /\ Len(merged_df.rows) > 0
     /\ ~({"Sales", "Expenses"} \subseteq merged_df.columns)) =>
        /\ pc \in {"write_merged", "generate_summary", "aborted"}
        /\ Written("summary_bar_chart") = {}
        /\ Written("summary") = {}
        /\ pc # "aborted" => ENABLED Step
        /\ pc = "aborted" =>
              /\ error = "KeyError"
              /\ steps[Len(steps)] = "generate_summary"
              /\ Written("merged") # {}

C9_Witness ==
    /\ pc = "aborted"
    /\ error = "KeyError"
    /\ "Sales" \in merged_df.columns
    /\ "Expenses" \notin merged_df.columns
    /\ Written("merged") # {}

\* C10: the merged table lists the rows of the loaded files in list order,
\* each file's rows in their original order, and its index is 0..N-1
\* whatever the source indices and whichever files were skipped.
C10_OrderAndFreshIndex ==
    HasStep("merge_excels") =>
        /\ Len(merged_df.rows) = RowsUpTo(Len(dataFiles))
        /\ Len(merged_df.index) = Len(merged_df.rows)
        /\ \A k \in 1..Len(merged_df.index) : merged_df.index[k] = k - 1
        /\ \A j \in Loadable : \A i \in 1..Len(dataFiles[j].rows) :
              LET row == merged_df.rows[RowsUpTo(j - 1) + i]
              IN  \A c \in merged_df.columns \ {SourceColumn} :
                     row[c] = IF c \in dataFiles[j].columns
                              THEN dataFiles[j].rows[i][c] ELSE Null

C10_Witness ==
    /\ HasStep("merge_excels")
    /\ Unreadable = {}
    /\ Cardinality(Loadable) = 2
    /\ merged_df.index = <<0, 1>>
    /\ Len(merged_df.rows) = 2
    /\ "Sales" \in merged_df.columns
    /\ merged_df.rows[1]["Sales"] = Null
    /\ merged_df.rows[2]["Sales"] = Num(2)

====
